---- MODULE Spec2Model ----
(***************************************************************************)
(* ITU-R BT.601 / BT.709 / BT.2020 encoding descriptors of the palette     *)
(* crate: the transfer functions (Transfer601And709, Transfer2020), the    *)
(* colour difference functions (DifferenceFn601/709/2020) and the bindings *)
(* of the four named standards.                                            *)
(*                                                                         *)
(* The generic float type T of the source is modelled as decimal fixed     *)
(* point: the integer v stands for the real v / Unit, every arithmetic     *)
(* operation rounds its exact result to the nearest representable value    *)
(* (ties away from zero), as an IEEE operation does at its own precision.  *)
(* All intermediate integers stay below 2^31.                              *)
(***************************************************************************)
EXTENDS Integers, Sequences, FiniteSets, TLC

\* One in fixed point: eight decimal digits after the point, held as two
\* halves of four digits each.
Radix == 100 * 100

Unit == Radix * Radix

\* The result of powf on a negative base (not a number); it propagates
\* through arithmetic and compares false with everything.
NaN == 0 - 2147483647

\* Arithmetic is defined as functions of integers: a function is applied to
\* the values of its arguments.

Abs(a) == IF a < 0 THEN 0 - a ELSE a

Sgn(a) == IF a < 0 THEN 0 - 1 ELSE 1

\* a / n rounded to nearest, for a >= 0 and a small integer n > 0.
RoundDivInt[a \in Int, n \in Int] == (2 * a + n) \div (2 * n)

\* The next digit of decimal long division by b, floor(10 r / b) for
\* 0 <= r < b: directly where 10 b is representable, otherwise the number
\* of j in 1..9 with j b <= 10 r, that is r >= ceil(j b / 10).
Digit[r \in Int, b \in Int] ==
    IF b <= 2147483647 \div 10 THEN (10 * r) \div b
    ELSE Cardinality({j \in 1..9 : r >= j * (b \div 10) + (j * (b % 10) + 9) \div 10})

\* The remainder 10 r - d b that goes with the digit d.
Rest[r \in Int, d \in Int, b \in Int] ==
    10 * (r - d * (b \div 10)) - d * (b % 10)

\* Decimal long division: from <<q, r>> = <<floor(a/b), a mod b>> to
\* <<floor(a*s/b), (a*s) mod b>>, s a power of ten, one digit at a time.
LongDiv[q \in Int, r \in Int, b \in Int, s \in Int] ==
    IF s = 1 THEN <<q, r>>
    ELSE LongDiv[10 * q + Digit[r, b], Rest[r, Digit[r, b], b], b, s \div 10]

\* The quotient of <<quotient, remainder>> rounded to nearest.
Nearest[qr \in Int \X Int, b \in Int] ==
    IF qr[2] >= b - qr[2] THEN qr[1] + 1 ELSE qr[1]

\* a*Unit/b rounded to nearest, for a >= 0 and b > 0.
RoundDiv[a \in Int, b \in Int] == Nearest[LongDiv[a \div b, a % b, b, Unit], b]

\* a*b/Unit rounded to nearest, for a, b >= 0, from the four partial
\* products of the halves of a and b.
RoundMul[a \in Int, b \in Int] ==
    (a \div Radix) * (b \div Radix)
    + ((a \div Radix) * (b % Radix) + (a % Radix) * (b \div Radix)
       + ((a % Radix) * (b % Radix) + Unit \div 2) \div Radix) \div Radix

\* Float multiplication a * b.
FMul[a \in Int, b \in Int] ==
    IF a = NaN \/ b = NaN THEN NaN
    ELSE Sgn(a) * Sgn(b) * RoundMul[Abs(a), Abs(b)]

\* Float division a / b (b # 0).
FDiv[a \in Int, b \in Int] ==
    IF a = NaN \/ b = NaN THEN NaN
    ELSE Sgn(a) * Sgn(b) * RoundDiv[Abs(a), Abs(b)]

\* Float addition and subtraction (exact in fixed point).
FAdd[a \in Int, b \in Int] == IF a = NaN \/ b = NaN THEN NaN ELSE a + b

FSub[a \in Int, b \in Int] == IF a = NaN \/ b = NaN THEN NaN ELSE a - b

\* Float comparisons: false when either side is not a number.
FLe[a \in Int, b \in Int] == a # NaN /\ b # NaN /\ a <= b

FLt[a \in Int, b \in Int] == a # NaN /\ b # NaN /\ a < b

\* cast(n / d): the decimal literal n/d constructed at the working precision.
cast(n, d) == Sgn(n) * RoundDiv[Abs(n), d]

\* T::one()
one == Unit

\* sum over j >= 0 of z^(2j+1) / (2j+1), given p = z^(2j+1), zz = z*z, n = 2j+1;
\* summed until the terms vanish at the working precision.
AtanhSeries[p \in Int, zz \in Int, n \in Int] ==
    IF p = 0 THEN 0
    ELSE Sgn(p) * RoundDivInt[Abs(p), n] + AtanhSeries[FMul[p, zz], zz, n + 2]

\* 2 atanh(z)
Atanh2[z \in Int] == 2 * AtanhSeries[z, FMul[z, z], 1]

\* ln(m) = 2 atanh((m - 1)/(m + 1)) for m near 1.
LnNear1[m \in Int] == Atanh2[FDiv[m - Unit, m + Unit]]

Ln2 == 0 - LnNear1[Unit \div 2]

\* ln(x) for x > 0: x = m 2^k with m in (1/2, 1], ln(x) = ln(m) + k ln(2).
LnScaled[x \in Int, k \in Int] ==
    IF x > Unit THEN LnNear1[RoundDivInt[x, 2 ^ k]] + k * Ln2
    ELSE LnNear1[x * 2 ^ k] - k * Ln2

Ln[x \in Int] ==
    IF x > Unit THEN LnScaled[x, CHOOSE j \in 1..5 : RoundDivInt[x, 2 ^ j] <= Unit]
    ELSE LnScaled[x, CHOOSE j \in 0..27 : 2 * x * 2 ^ j > Unit]

\* sum over n >= k of r^n / n!, given term = r^k / k!.
ExpSeries[term \in Int, r \in Int, k \in Int] ==
    IF term = 0 THEN 0
    ELSE term + ExpSeries[Sgn(term) * Sgn(r) * RoundDivInt[Abs(FMul[term, r]), k + 1], r, k + 1]

\* exp(k ln2 + r) = 2^k exp(r)
ExpScaled[k \in Int, e \in Int] ==
    IF k >= 0 THEN e * 2 ^ k ELSE RoundDivInt[e, 2 ^ (0 - k)]

\* exp(t) where t = k ln2 + r with |r| <= ln2 / 2.
ExpSplit[t \in Int, k \in Int] == ExpScaled[k, ExpSeries[Unit, t - k * Ln2, 0]]

Exp[t \in Int] == ExpSplit[t, Sgn(t) * ((2 * Abs(t) + Ln2) \div (2 * Ln2))]

\* x.powf(y): exp(y ln x) for x > 0; 0 for x = 0 and y > 0; not a number
\* for a negative base and a fractional exponent.
powf[x \in Int, y \in Int] ==
    IF x = NaN \/ y = NaN \/ x < 0 THEN NaN
    ELSE IF x = 0 THEN 0
    ELSE Exp[FMul[y, Ln[x]]]

(***************************************************************************)
(* Constants of palette/src/encoding/itu.rs.                               *)
(***************************************************************************)

\* RGB primary luminances of BT.601.
BT601_LUMINANCE == <<cast(2990, 10000), cast(5870, 10000), cast(1140, 10000)>>

BT601_BLUE_NORM == cast(1772, 1000)

BT601_RED_NORM == cast(1402, 1000)

\* Exact primary luminances derived from the colour space primaries.
BT709_LUMINANCE == <<cast(212656, 1000000), cast(715158, 1000000), cast(72186, 1000000)>>

\* Mutant of BT709_WEIGHTS: the blue weight written as 0.0722.
BT709_WEIGHTS_Blue0722 == <<cast(2126, 10000), cast(7152, 10000), cast(722, 10000)>>

\* Luminances of the YUV luminance transform of BT.709.
BT709_WEIGHTS == <<cast(2126, 10000), cast(7152, 10000), cast(7212, 100000)>>

BT709_BLUE_NORM == cast(18556, 10000)

BT709_RED_NORM == cast(15748, 10000)

\* Mutant of BT2020_WEIGHTS: the blue weight 0.0593 written as 0.593.
BT2020_WEIGHTS_Blue0593 == <<cast(2627, 10000), cast(6780, 10000), cast(593, 1000)>>

BT2020_WEIGHTS == <<cast(2627, 10000), cast(6780, 10000), cast(593, 10000)>>

BT2020_BLUE_NORM == cast(18814, 10000)

BT2020_RED_NORM == cast(14746, 10000)

\* cast(1.09929682680944) and cast(0.018053968510807), rounded to the
\* working precision.
alpha == cast(109929683, Unit)

beta == cast(1805397, Unit)

(***************************************************************************)
(* The named standards and their bindings.                                 *)
(***************************************************************************)

Standards == {"BT601_525", "BT601_625", "BT709", "BT2020"}

\* Yxy::with_wp(x, y, luma)
Yxy(cx, cy, luma) == [x |-> cx, y |-> cy, luma |-> luma]

\* <<red, green, blue>> of impl Primaries for BT601_525.
BT601_525_Primaries ==
    <<Yxy(cast(6300, 10000), cast(3400, 10000), BT601_LUMINANCE[1]),
      Yxy(cast(3100, 10000), cast(5950, 10000), BT601_LUMINANCE[2]),
      Yxy(cast(1550, 10000), cast(700, 10000), BT601_LUMINANCE[3])>>

BT601_625_Primaries ==
    <<Yxy(cast(6400, 10000), cast(3300, 10000), BT601_LUMINANCE[1]),
      Yxy(cast(2900, 10000), cast(6000, 10000), BT601_LUMINANCE[2]),
      Yxy(cast(1500, 10000), cast(600, 10000), BT601_LUMINANCE[3])>>

\* Mutant of BT709_Primaries: the difference weights used as the Y of the
\* primaries.
BT709_Primaries_Weights ==
    <<Yxy(cast(6400, 10000), cast(3300, 10000), BT709_WEIGHTS[1]),
      Yxy(cast(3000, 10000), cast(6000, 10000), BT709_WEIGHTS[2]),
      Yxy(cast(1500, 10000), cast(600, 10000), BT709_WEIGHTS[3])>>

BT709_Primaries ==
    <<Yxy(cast(6400, 10000), cast(3300, 10000), BT709_LUMINANCE[1]),
      Yxy(cast(3000, 10000), cast(6000, 10000), BT709_LUMINANCE[2]),
      Yxy(cast(1500, 10000), cast(600, 10000), BT709_LUMINANCE[3])>>

BT2020_Primaries ==
    <<Yxy(cast(708, 1000), cast(292, 1000), BT2020_WEIGHTS[1]),
      Yxy(cast(170, 1000), cast(797, 1000), BT2020_WEIGHTS[2]),
      Yxy(cast(131, 1000), cast(46, 1000), BT2020_WEIGHTS[3])>>

\* <S as RgbSpace>::Primaries: every standard names itself.
RgbSpace_Primaries(s) ==
    CASE s = "BT601_525" -> BT601_525_Primaries
      [] s = "BT601_625" -> BT601_625_Primaries
      [] s = "BT709" -> BT709_Primaries
      [] s = "BT2020" -> BT2020_Primaries

\* <S as RgbStandard>::TransferFn
RgbStandard_TransferFn(s) ==
    CASE s = "BT601_525" -> "Transfer601And709"
      [] s = "BT601_625" -> "Transfer601And709"
      [] s = "BT709" -> "Transfer601And709"
      [] s = "BT2020" -> "Transfer2020"

\* <S as LumaStandard>::TransferFn
LumaStandard_TransferFn(s) ==
    CASE s = "BT601_525" -> "Transfer601And709"
      [] s = "BT601_625" -> "Transfer601And709"
      [] s = "BT709" -> "Transfer601And709"
      [] s = "BT2020" -> "Transfer2020"

\* <S as YuvStandard>::TransferFn
YuvStandard_TransferFn(s) ==
    CASE s = "BT601_525" -> "Transfer601And709"
      [] s = "BT601_625" -> "Transfer601And709"
      [] s = "BT709" -> "Transfer601And709"
      [] s = "BT2020" -> "Transfer2020"

\* <S as YuvStandard>::DifferenceFn
YuvStandard_DifferenceFn(s) ==
    CASE s = "BT601_525" -> "DifferenceFn601"
      [] s = "BT601_625" -> "DifferenceFn601"
      [] s = "BT709" -> "DifferenceFn709"
      [] s = "BT2020" -> "DifferenceFn2020"

(***************************************************************************)
(* Transfer functions.  Each returns the value together with the branch    *)
(* taken and, on the power-law branch, the base handed to powf.            *)
(***************************************************************************)

Linear(v) == [val |-> v, branch |-> "linear", base |-> NaN]

Power(b, v) == [val |-> v, branch |-> "power", base |-> b]

Transfer601And709_into_linear(x) ==
    IF FLe[x, cast(91, 10000)]
    THEN Linear(FDiv[x, cast(4500, 1000)])
    ELSE LET b == FDiv[FAdd[x, cast(99, 1000)], cast(1099, 1000)]
         IN  Power(b, powf[b, FDiv[one, cast(45, 100)]])

\* Mutant of Transfer601And709_from_linear: the comparison inverted.
Transfer601And709_from_linear_Inverted(x) ==
    IF FLe[cast(18, 10000), x]
    THEN Linear(FMul[x, cast(4500, 1000)])
    ELSE Power(x, FSub[FMul[powf[x, cast(45, 100)], cast(1099, 1000)], cast(99, 1000)])

Transfer601And709_from_linear(x) ==
    IF FLe[x, cast(18, 10000)]
    THEN Linear(FMul[x, cast(4500, 1000)])
    ELSE Power(x, FSub[FMul[powf[x, cast(45, 100)], cast(1099, 1000)], cast(99, 1000)])

Transfer2020_into_linear(x) ==
    IF FLt[x, FMul[beta, cast(4500, 1000)]]
    THEN Linear(FDiv[x, cast(4500, 1000)])
    ELSE LET b == FDiv[FSub[FAdd[x, alpha], one], alpha]
         IN  Power(b, powf[b, FDiv[one, cast(45, 100)]])

\* Mutant of Transfer2020_from_linear: the offset 0.099 of the shared policy
\* in place of alpha - 1.
Transfer2020_from_linear_Offset099(x) ==
    IF FLt[x, beta]
    THEN Linear(FMul[x, cast(45, 10)])
    ELSE Power(x, FSub[FMul[powf[x, cast(45, 100)], alpha], cast(99, 1000)])

Transfer2020_from_linear(x) ==
    IF FLt[x, beta]
    THEN Linear(FMul[x, cast(45, 10)])
    ELSE Power(x, FSub[FMul[powf[x, cast(45, 100)], alpha], FSub[alpha, one]])

\* TransferFn::into_linear and TransferFn::from_linear, dispatched on the policy.
into_linear(tf, x) ==
    IF tf = "Transfer601And709" THEN Transfer601And709_into_linear(x)
    ELSE Transfer2020_into_linear(x)

from_linear(tf, x) ==
    IF tf = "Transfer601And709" THEN Transfer601And709_from_linear(x)
    ELSE Transfer2020_from_linear(x)

(***************************************************************************)
(* Difference functions.                                                   *)
(***************************************************************************)

DifferenceFn601_luminance == <<BT601_LUMINANCE[1], BT601_LUMINANCE[2], BT601_LUMINANCE[3]>>

DifferenceFn601_norm_blue(denorm) == FDiv[denorm, BT601_BLUE_NORM]

DifferenceFn601_denorm_blue(norm) == FMul[norm, BT601_BLUE_NORM]

DifferenceFn601_norm_red(denorm) == FDiv[denorm, BT601_RED_NORM]

DifferenceFn601_denorm_red(norm) == FMul[norm, BT601_RED_NORM]

DifferenceFn709_luminance == <<BT709_WEIGHTS[1], BT709_WEIGHTS[2], BT709_WEIGHTS[3]>>

DifferenceFn709_norm_blue(denorm) == FDiv[denorm, BT709_BLUE_NORM]

\* Mutant of DifferenceFn709_denorm_blue: the red constant in place of the blue.
DifferenceFn709_denorm_blue_Red(norm) == FMul[norm, BT709_RED_NORM]

DifferenceFn709_denorm_blue(norm) == FMul[norm, BT709_BLUE_NORM]

DifferenceFn709_norm_red(denorm) == FDiv[denorm, BT709_RED_NORM]

DifferenceFn709_denorm_red(norm) == FMul[norm, BT709_RED_NORM]

DifferenceFn2020_luminance == <<BT2020_WEIGHTS[1], BT2020_WEIGHTS[2], BT2020_WEIGHTS[3]>>

DifferenceFn2020_norm_blue(denorm) == FDiv[denorm, BT2020_BLUE_NORM]

DifferenceFn2020_denorm_blue(norm) == FMul[norm, BT2020_BLUE_NORM]

DifferenceFn2020_norm_red(denorm) == FDiv[denorm, BT2020_RED_NORM]

DifferenceFn2020_denorm_red(norm) == FMul[norm, BT2020_RED_NORM]

\* The DifferenceFn trait, dispatched on the policy.
luminance(d) ==
    CASE d = "DifferenceFn601" -> DifferenceFn601_luminance
      [] d = "DifferenceFn709" -> DifferenceFn709_luminance
      [] d = "DifferenceFn2020" -> DifferenceFn2020_luminance

norm_blue(d, v) ==
    CASE d = "DifferenceFn601" -> DifferenceFn601_norm_blue(v)
      [] d = "DifferenceFn709" -> DifferenceFn709_norm_blue(v)
      [] d = "DifferenceFn2020" -> DifferenceFn2020_norm_blue(v)

denorm_blue(d, v) ==
    CASE d = "DifferenceFn601" -> DifferenceFn601_denorm_blue(v)
      [] d = "DifferenceFn709" -> DifferenceFn709_denorm_blue(v)
      [] d = "DifferenceFn2020" -> DifferenceFn2020_denorm_blue(v)

norm_red(d, v) ==
    CASE d = "DifferenceFn601" -> DifferenceFn601_norm_red(v)
      [] d = "DifferenceFn709" -> DifferenceFn709_norm_red(v)
      [] d = "DifferenceFn2020" -> DifferenceFn2020_norm_red(v)

denorm_red(d, v) ==
    CASE d = "DifferenceFn601" -> DifferenceFn601_denorm_red(v)
      [] d = "DifferenceFn709" -> DifferenceFn709_denorm_red(v)
      [] d = "DifferenceFn2020" -> DifferenceFn2020_denorm_red(v)

\* Y' = w_r R' + w_g G' + w_b B' over the gamma-encoded channels.
luma(d, rgb) ==
    LET w == luminance(d)
    IN  FAdd[FAdd[FMul[w[1], rgb[1]], FMul[w[2], rgb[2]]], FMul[w[3], rgb[3]]]

(***************************************************************************)
(* The inputs the operations are applied to.                               *)
(***************************************************************************)

\* Number of equal steps the unit interval is cut into.
GridSteps == 8

\* Number of grid steps sampled below 0 and above 1.
GridMargin == 2

\* Number of steps of 1/1000 sampled above 0, around the breakpoints.
FineSteps == 10

\* Number of steps of a colour channel between 0 and 1.
ChannelSteps == 2

\* Number of steps between 0 and 1/2 of a normalized difference sample.
DiffSteps == 10

\* The breakpoints of the four transfer directions.
Breakpoints == {cast(18, 10000), cast(91, 10000), beta, FMul[beta, cast(4500, 1000)]}

\* Samples of a transfer function argument: a grid over and around [0, 1],
\* a fine grid above 0, and each breakpoint with its two neighbours.
Samples ==
    {(k * Unit) \div GridSteps : k \in (0 - GridMargin)..(GridSteps + GridMargin)}
    \cup {k * (Unit \div 1000) : k \in 1..FineSteps}
    \cup {p + e : p \in Breakpoints, e \in {0 - 1, 0, 1}}

\* Gamma-encoded colour channels in [0, 1].
Channels == {(k * Unit) \div ChannelSteps : k \in 0..ChannelSteps}

\* Normalized difference samples in [-1/2, 1/2].
DiffSamples == {(k * Unit) \div (2 * DiffSteps) : k \in (0 - DiffSteps)..DiffSteps}

VARIABLES
    std,    \* the standard descriptor the caller selected
    args,   \* the arguments of the call
    op,     \* the operation that was applied ("idle": none yet)
    out,    \* its result
    calls   \* the transfer function evaluations it made

vars == <<std, args, op, out, calls>>

\* The record of one transfer function evaluation.
Call(fn, arg, r) == [fn |-> fn, arg |-> arg] @@ r

Init ==
    /\ std \in Standards
    /\ args \in {<<>>}
            \cup {<<a, b>> : a \in Samples, b \in Samples}
            \cup {<<v>> : v \in DiffSamples}
            \cup {<<r, g, b>> : r \in Channels, g \in Channels, b \in Channels}
    /\ (Len(args) = 2 => args[1] <= args[2])
    /\ op = "idle"
    /\ out = <<>>
    /\ calls = <<>>

\* The standard's associated types are resolved and its constants read.
Describe ==
    /\ op = "idle"
    /\ Len(args) = 0
    /\ op' = "describe"
    /\ LET d == YuvStandard_DifferenceFn(std)
           p == RgbSpace_Primaries(std)
       IN  out' = [rgb_transfer |-> RgbStandard_TransferFn(std),
                   luma_transfer |-> LumaStandard_TransferFn(std),
                   yuv_transfer |-> YuvStandard_TransferFn(std),
                   difference |-> d,
                   luminance |-> luminance(d),
                   blue_norm |-> denorm_blue(d, one),
                   red_norm |-> denorm_red(d, one),
                   primaries_luma |-> <<p[1].luma, p[2].luma, p[3].luma>>]
    /\ UNCHANGED <<std, args, calls>>

\* S::TransferFn::from_linear applied to each of two samples.
FromLinear ==
    /\ op = "idle"
    /\ Len(args) = 2
    /\ op' = "from_linear"
    /\ LET tf == RgbStandard_TransferFn(std)
       IN  calls' = <<Call("from_linear", args[1], from_linear(tf, args[1])),
                      Call("from_linear", args[2], from_linear(tf, args[2]))>>
    /\ out' = <<calls'[1].val, calls'[2].val>>
    /\ UNCHANGED <<std, args>>

\* S::TransferFn::into_linear applied to each of two samples.
IntoLinear ==
    /\ op = "idle"
    /\ Len(args) = 2
    /\ op' = "into_linear"
    /\ LET tf == RgbStandard_TransferFn(std)
       IN  calls' = <<Call("into_linear", args[1], into_linear(tf, args[1])),
                      Call("into_linear", args[2], into_linear(tf, args[2]))>>
    /\ out' = <<calls'[1].val, calls'[2].val>>
    /\ UNCHANGED <<std, args>>

\* into_linear(from_linear(x)) for each of two samples.
RoundTrip ==
    /\ op = "idle"
    /\ Len(args) = 2
    /\ op' = "round_trip"
    /\ \E e1 \in {from_linear(RgbStandard_TransferFn(std), args[1])},
          e2 \in {from_linear(RgbStandard_TransferFn(std), args[2])} :
            calls' = <<Call("from_linear", args[1], e1),
                       Call("into_linear", e1.val, into_linear(RgbStandard_TransferFn(std), e1.val)),
                       Call("from_linear", args[2], e2),
                       Call("into_linear", e2.val, into_linear(RgbStandard_TransferFn(std), e2.val))>>
    /\ out' = <<calls'[2].val, calls'[4].val>>
    /\ UNCHANGED <<std, args>>

\* The analog YUV signal of gamma-encoded R'G'B': <<Y', norm_blue(B' - Y'),
\* norm_red(R' - Y')>>.
Difference ==
    /\ op = "idle"
    /\ Len(args) = 3
    /\ op' = "difference"
    /\ \E d \in {YuvStandard_DifferenceFn(std)} :
         \E y \in {luma(d, args)} :
            out' = <<y, norm_blue(d, FSub[args[3], y]), norm_red(d, FSub[args[1], y])>>
    /\ UNCHANGED <<std, args, calls>>

\* denorm_blue(norm_blue(x)) and denorm_red(norm_red(x)).
NormRoundTrip ==
    /\ op = "idle"
    /\ Len(args) = 1
    /\ op' = "norm_round_trip"
    /\ LET d == YuvStandard_DifferenceFn(std)
       IN  out' = <<denorm_blue(d, norm_blue(d, args[1])), denorm_red(d, norm_red(d, args[1]))>>
    /\ UNCHANGED <<std, args, calls>>

Next ==
    \/ Describe
    \/ FromLinear
    \/ IntoLinear
    \/ RoundTrip
    \/ Difference
    \/ NormRoundTrip

Spec == Init /\ [][Next]_vars

(***************************************************************************)
(* Properties.                                                             *)
(***************************************************************************)

\* The tolerance of the round trip, 1e-6.
RoundTripTol == Unit \div 1000000

\* The largest jump accepted across a breakpoint, 1e-6.
ContinuityEps == Unit \div 1000000

\* The indices of the arguments of a call.
ArgIndex == 1..Len(args)

\* C1: for every standard and every sample x in [0, 1],
\* into_linear(from_linear(x)) differs from x by less than 1e-6.
C1_RoundTrip ==
    op = "round_trip" =>
        \A i \in ArgIndex :
            (0 <= args[i] /\ args[i] <= Unit) => Abs(out[i] - args[i]) < RoundTripTol

\* C2: in both directions of both transfer policies the values just below
\* and just above the direction's breakpoint (one on the linear segment, the
\* other on the power-law segment) differ by less than a small epsilon.
C2_Continuity ==
    (/\ op \in {"from_linear", "into_linear"}
     /\ args[2] - args[1] <= 1
     /\ calls[1].branch # calls[2].branch)
        => Abs(out[2] - out[1]) < ContinuityEps

\* C3: from_linear and into_linear are monotonically increasing: a < b
\* implies f(a) <= f(b), also across the breakpoint.
C3_Monotone ==
    (op \in {"from_linear", "into_linear"} /\ args[1] < args[2]) => out[1] <= out[2]

\* C4: for R', G', B' in [0, 1] and Y' computed from the policy's luminance
\* weights, norm_blue(B' - Y') and norm_red(R' - Y') lie in [-1/2, 1/2].
C4_ChromaRange ==
    op = "difference" =>
        /\ Abs(out[2]) <= Unit \div 2
        /\ Abs(out[3]) <= Unit \div 2

\* C5 as stated: denorm_blue(norm_blue(x)) = x and denorm_red(norm_red(x)) = x
\* exactly, for every x in [-1/2, 1/2].
C5_ExactInverse ==
    op = "norm_round_trip" => (out[1] = args[1] /\ out[2] = args[1])

\* C5 as amended: denorm_blue(norm_blue(x)) and denorm_red(norm_red(x)) equal x
\* up to the rounding of the division and the multiplication, one unit in the
\* last place.
C5_InverseWithinRounding ==
    op = "norm_round_trip" =>
        (Abs(out[1] - args[1]) <= 1 /\ Abs(out[2] - args[1]) <= 1)

\* A normalization round trip of the extreme sample -1/2 under BT2020.
C5_Witness ==
    op = "norm_round_trip" /\ std = "BT2020" /\ args[1] = 0 - Unit \div 2

\* C6: from_linear(0) = 0 and from_linear(1) = 1 for every standard.
C6_Boundary ==
    op = "from_linear" =>
        \A i \in ArgIndex :
            /\ (args[i] = 0 => out[i] = 0)
            /\ (args[i] = Unit => out[i] = Unit)

\* from_linear applied to 0 and to 1 under BT2020.
C6_Witness ==
    op = "from_linear" /\ std = "BT2020" /\ args = <<0, Unit>>

C8_LuminanceWeights ==
    op = "describe" =>
        /\ \A i \in 1..3 : out.luminance[i] >= 0
        /\ out.luminance[1] + out.luminance[2] + out.luminance[3] <= Unit

\* Luminance weights read that sum to less than 1 (BT709's).
C8_Witness ==
    /\ op = "describe"
    /\ out.luminance[1] + out.luminance[2] + out.luminance[3] < Unit

C10_Totality ==
    \A i \in 1..Len(calls) :
        LET c == calls[i]
        IN  /\ c.arg < 0 =>
                /\ c.branch = "linear"
                /\ c.val = IF c.fn = "from_linear"
                           THEN FMul[c.arg, cast(45, 10)]
                           ELSE FDiv[c.arg, cast(45, 10)]
            /\ c.branch = "power" => (c.base > 0 /\ c.val # NaN)

\* into_linear applied to a negative sample (linear branch) and to a sample
\* on the power-law branch.
C10_Witness ==
    /\ op = "into_linear"
    /\ args[1] < 0
    /\ calls[1].branch = "linear"
    /\ calls[1].val < 0
    /\ calls[2].branch = "power"
====
